---- MODULE Spec2Model ----
(***************************************************************************)
(* rego: resolve the transitive imports of a Go main package, watch their  *)
(* directories, rebuild (go install) 200 ms after the last change and      *)
(* restart the installed binary.  The model follows the newer iteration of *)
(* the program (src/unnamed/part_000); src/rego.go is the earlier one.     *)
(*                                                                         *)
(* Strings the program takes apart (import paths, file names) are          *)
(* sequences of tokens, so that filepath.Ext, filepath.Base and            *)
(* strings.HasPrefix are computed.  A path is a sequence of names.         *)
(***************************************************************************)
EXTENDS Integers, Sequences, FiniteSets, Bags, TLC

\* ------------------------------------------------------------------ bounds
\* Longest import list of a unit in the generated dependency graphs.
MaxImports == 2
\* Changes made to the file tree, and builds (go install runs) started, in
\* one run of the whole program.
MaxChanges == 2
MaxBuilds == 3
\* The same in a run of the specification of the watch set, where every
\* kind of change is made to every path.
MaxWatchChanges == 1
MaxWatchBuilds == 2
\* The same in a run with a file named by -extra-watches below a
\* subdirectory that is removed and made again.
MaxExtraChanges == 3
MaxExtraBuilds == 1
\* Milliseconds of one clock step.
TickMs == 100

\* time.After(200 * time.Millisecond)
QuietPeriod == 200

\* ------------------------------------------------------- strings and paths
HasPrefix(s, prefix) ==
    /\ Len(s) >= Len(prefix)
    /\ SubSeq(s, 1, Len(prefix)) = prefix

\* filepath.Base: the last element of a path.
Base(path) == path[Len(path)]

\* filepath.Ext: the suffix of the last element that begins at its final dot.
Ext(path) ==
    LET name == Base(path)
        dots == {i \in 1..Len(name) : name[i] = "."}
    IN  IF dots = {} THEN <<>>
        ELSE LET last == CHOOSE i \in dots : \A k \in dots : k <= i
             IN  SubSeq(name, last, Len(name))

GoExt == <<".", "go">>

Parent(path) == SubSeq(path, 1, Len(path) - 1)

\* path is strictly below dir
Under(path, dir) == Len(path) > Len(dir) /\ SubSeq(path, 1, Len(dir)) = dir

\* ---------------------------------------------------------- the file tree
GoPathSrc == <<"gopath">>
GoRootSrc == <<"goroot">>

RootDir   == <<GoPathSrc, <<"r">>>>
MainGo    == RootDir \o <<<<"m", ".", "go">>>>
Notes     == RootDir \o <<<<"n", ".", "txt">>>>
Hidden    == RootDir \o <<<<".", "h", ".", "go">>>>
Conf      == RootDir \o <<<<"c", ".", "txt">>>>
Sub       == RootDir \o <<<<"d">>>>
SubNested == Sub \o <<<<"e">>>>
SubGo     == SubNested \o <<<<"x", ".", "go">>>>
SubTxt    == SubNested \o <<<<"y", ".", "txt">>>>
SubHidden == SubNested \o <<<<".", "z", ".", "go">>>>
StdDir    == <<GoRootSrc, <<"fmt">>>>
StdGo     == StdDir \o <<<<"f", ".", "go">>>>

Dirs  == {RootDir, Sub, SubNested, StdDir}
Files == {MainGo, Notes, Hidden, Conf, SubGo, SubTxt, SubHidden, StdGo}
Paths == Dirs \cup Files

IsDir(path) == path \in Dirs

\* The tree at startup: the subdirectory d arrives later.
InitialTree == {RootDir, MainGo, Notes, Hidden, Conf, StdDir, StdGo}

\* ------------------------------------------------------ the import graph
Root == <<"root">>
PkgA == <<"a">>
PkgB == <<"b">>
PkgX == <<"x">>
Fmt  == <<"fmt">>
Cgo  == <<"C">>
Rel  == <<".", "/", "loc">>

Units == {Root, PkgA, PkgB, PkgX, Fmt}

\* build.Package.Dir
DirOf(id) ==
    CASE id = Root -> RootDir
      [] id = Fmt  -> StdDir
      [] OTHER     -> <<GoPathSrc>> \o <<id>>

\* build.Package.Goroot
GorootOf(id) == id = Fmt

\* Sequences without repetition over S, of length at most n
\* (go/build lists each import of a package once).
RECURSIVE ImportLists(_, _)
ImportLists(S, n) ==
    IF n = 0 THEN {<<>>}
    ELSE {<<>>} \cup
         UNION {{<<x>> \o rest : rest \in ImportLists(S \ {x}, n - 1)} : x \in S}

\* Import graphs: each unit imports only later ones, but that b may name
\* the root itself (build.Import reads the import lines of what is on disk,
\* whether or not it compiles).
Graphs ==
    {[u \in Units |->
        CASE u = Root -> r
          [] u = PkgA -> a
          [] u = PkgB -> b
          [] u = Fmt  -> f
          [] OTHER    -> <<>>] :
        r \in ImportLists({PkgA, PkgB, Fmt, Cgo, Rel}, MaxImports),
        a \in ImportLists({PkgB, Fmt, Cgo}, MaxImports),
        b \in ImportLists({Fmt, Cgo, Root}, MaxImports),
        f \in ImportLists({PkgX}, 1)}

GraphOf(r) == [u \in Units |-> IF u = Root THEN r ELSE <<>>]

\* The graphs the whole program is run on.
SteadyGraphs == {GraphOf(<<Fmt>>), GraphOf(<<Cgo, Fmt>>)}

VARIABLES
    graph,          \* unit id -> its import list (build.Package.Imports)
    extraMatches,   \* what filepath.Glob returns for the -extra-watches patterns
    fs,             \* the paths that exist
    nchanges,       \* changes made to the file tree so far
    lastChange,     \* the last of them: <<kind, path>>
    watch,          \* the paths added to the fsnotify watcher
    extraPaths,     \* extraPaths map
    tool,           \* "startup", "running", "returned", "exit0", "fatal"
    pkgs, seenPkgs, \* resolver: the unit list and the seen set
    ri, rj, rpc,    \* resolver: index i, index in pkg.Imports, position
    inflight,       \* resolver: imports whose goroutine has not finished
    events,         \* w.Events: events delivered and not yet received by main
    spawned,        \* bag of events whose handler goroutine has not run yet
    sending,        \* handler goroutines blocked in install <- struct{}{}
    mainpc,         \* main: "startup", "initSend" (part_000:242), "loop"
    dpc,            \* debounce loop: "select", "building", "sendRestart"
    needsInstall,   \* needsInstall
    timerLeft,      \* ms until timerChan delivers (0 when it is not armed)
    nrestarts,      \* nrestarts
    builds,         \* go install runs started
    lastBuild,      \* how the last of them ended: "none", "ok", "failed"
    spc,            \* supervisor: "recv", "wait" (proc.Wait)
    alive,          \* supervisor: the value received from restart
    proc,           \* supervisor: proc (0 is nil, else the child's number)
    child,          \* cmd.Start calls: number -> "alive", "deaf" (alive and
                    \* ignoring os.Interrupt), "dead" or "failed"
    signalled,      \* children proc.Signal(os.Interrupt) was called on
    killed,         \* children proc.Kill() was called on
    restartReqs,    \* restart <- true requests the supervisor has received
    sigpc,          \* signal goroutine: "wait", "send", "done"
    sigRestarts,    \* nrestarts when the signal goroutine received the signal
    sinceLast,      \* ms since the debounce loop last received a trigger (capped)
    burstLen,       \* triggers received in the current burst
    burstBuilds     \* builds invoked since the current burst began

resolverVars == <<pkgs, seenPkgs, ri, rj, rpc, inflight>>
envVars == <<graph, extraMatches, fs, nchanges, lastChange>>
eventVars == <<events, spawned, sending>>
debounceVars == <<dpc, needsInstall, timerLeft, nrestarts, builds, lastBuild>>
supVars == <<spc, alive, proc, child, signalled, killed, restartReqs>>
burstVars == <<sinceLast, burstLen, burstBuilds>>
sigVars == <<sigpc, sigRestarts>>
loopVars == <<eventVars, mainpc, debounceVars, supVars, sigVars, burstVars>>
vars == <<envVars, watch, extraPaths, tool, resolverVars, loopVars>>

\* -------------------------------------------------------------- resolver
\* Mutant: units in GOROOT are watched like the others.
SkipNoUnit(id) == FALSE

\* part_000:76  if pkg.Goroot { continue }
SkipUnit(id) == GorootOf(id)

\* part_000:98  imp == "C" || strings.HasPrefix(imp, ".")
Unresolvable(imp) == imp = Cgo \/ HasPrefix(imp, <<".">>)

\* part_000:74-89: the next unit of pkgs: skipped when it is in GOROOT,
\* watched otherwise, and then its imports are walked.
ResolveUnit ==
    /\ tool = "startup" /\ rpc = "unit" /\ ri <= Len(pkgs)
    /\ IF SkipUnit(pkgs[ri])
       THEN /\ ri' = ri + 1
            /\ UNCHANGED <<watch, rj, rpc>>
       ELSE /\ watch' = watch \cup {DirOf(pkgs[ri])}
            /\ rj' = 1
            /\ rpc' = "imports"
            /\ UNCHANGED ri
    /\ UNCHANGED <<envVars, extraPaths, tool, pkgs, seenPkgs, inflight, loopVars>>

\* part_000:90-117: one import of the current unit: skipped when seen,
\* main returns on "C" or a relative import, else a goroutine resolves it.
ResolveImport ==
    /\ tool = "startup" /\ rpc = "imports"
    /\ rj <= Len(graph[pkgs[ri]])
    /\ LET imp == graph[pkgs[ri]][rj]
       IN  IF imp \in seenPkgs
           THEN /\ rj' = rj + 1
                /\ UNCHANGED <<tool, inflight>>
           ELSE IF Unresolvable(imp)
           THEN /\ tool' = "returned"
                /\ UNCHANGED <<rj, inflight>>
           ELSE /\ inflight' = inflight \cup {imp}
                /\ rj' = rj + 1
                /\ UNCHANGED tool
    /\ UNCHANGED <<envVars, watch, extraPaths, pkgs, seenPkgs, ri, rpc, loopVars>>

\* part_000:103-117: the goroutine of one import, under mu.
ImportGoroutine(imp) ==
    /\ tool = "startup" /\ imp \in inflight
    /\ pkgs' = Append(pkgs, imp)
    /\ seenPkgs' = seenPkgs \cup {imp}
    /\ inflight' = inflight \ {imp}
    /\ UNCHANGED <<envVars, watch, extraPaths, tool, ri, rj, rpc, loopVars>>

\* part_000:119  wg.Wait()
ResolveWait ==
    /\ tool = "startup" /\ rpc = "imports"
    /\ rj > Len(graph[pkgs[ri]])
    /\ inflight = {}
    /\ ri' = ri + 1
    /\ rpc' = "unit"
    /\ UNCHANGED <<envVars, watch, extraPaths, tool, pkgs, seenPkgs, rj, inflight, loopVars>>

\* Mutant: main goes to its event loop without the first trigger.
MainSkipsFirstInstall == "loop"

\* part_000:242  install <- struct{}{}: main's first step after startup.
MainAfterStartup == "initSend"

\* part_000:122-143: the extra watches; the loops start after them.
AddExtraWatches ==
    /\ tool = "startup" /\ rpc = "unit" /\ ri > Len(pkgs)
    /\ watch' = watch \cup extraMatches
    /\ extraPaths' = extraMatches
    /\ tool' = "running"
    /\ rpc' = "done"
    /\ mainpc' = MainAfterStartup
    /\ UNCHANGED <<envVars, pkgs, seenPkgs, ri, rj, inflight>>
    /\ UNCHANGED <<eventVars, debounceVars, supVars, sigVars, burstVars>>

InitLoops ==
    /\ events = <<>> /\ spawned = EmptyBag /\ sending = 0
    /\ mainpc = "startup"
    /\ dpc = "select" /\ needsInstall = 0 /\ timerLeft = 0
    /\ nrestarts = 0 /\ builds = 0 /\ lastBuild = "none"
    /\ spc = "recv" /\ alive = TRUE /\ proc = 0 /\ child = <<>>
    /\ signalled = {} /\ killed = {} /\ restartReqs = 0
    /\ sigpc = "wait" /\ sigRestarts = 0
    /\ sinceLast = QuietPeriod /\ burstLen = 0 /\ burstBuilds = 0

\* The state at the start of main, but for the tree and the command line.
InitMain ==
    /\ nchanges = 0
    /\ lastChange = <<>>
    /\ InitLoops
    /\ watch = {}
    /\ extraPaths = {}
    /\ tool = "startup"
    /\ pkgs = <<Root>>
    /\ seenPkgs = {}
    /\ ri = 1 /\ rj = 1 /\ rpc = "unit"
    /\ inflight = {}

InitResolver ==
    /\ fs = InitialTree
    /\ InitMain

InitResolve ==
    /\ graph \in Graphs
    /\ extraMatches \in {{}, {Conf}}
    /\ InitResolver

NextResolve ==
    \/ ResolveUnit
    \/ ResolveImport
    \/ \E imp \in Units : ImportGoroutine(imp)
    \/ ResolveWait
    \/ AddExtraWatches

SpecResolve == InitResolve /\ [][NextResolve]_vars

\* ------------------------------------------------------------ filesystem
Ops == {"Create", "Write", "Remove", "Rename", "Chmod"}

Descendants(dir) == {q \in Paths : Under(q, dir)}

\* What a change of kind op to path leaves on disk.  A created directory
\* arrives empty (mkdir) or with its whole content (moved in); a removed or
\* renamed path leaves with everything below it.
Changed(op, path) ==
    CASE op = "Create" ->
            IF IsDir(path)
            THEN {fs \cup {path}, fs \cup {path} \cup Descendants(path)}
            ELSE {fs \cup {path}}
      [] op \in {"Remove", "Rename"} ->
            {fs \ ({path} \cup Descendants(path))}
      [] OTHER -> {fs}

CanChange(op, path) ==
    CASE op = "Create" -> path \notin fs /\ Parent(path) \in fs
      [] op = "Write"  -> path \in fs /\ ~IsDir(path)
      [] OTHER         -> path \in fs

\* part_000:250  the watcher reports a change to a watched path and to an
\* entry of a watched directory, and to nothing else.
Reported(path) == path \in watch \/ Parent(path) \in watch

\* A change made to the tree while the tool runs; the watcher queues its
\* event on w.Events when the path is reported.
FsChange(op, path, max) ==
    /\ tool = "running"
    /\ nchanges < max
    /\ CanChange(op, path)
    /\ \E tree \in Changed(op, path) : fs' = tree
    /\ nchanges' = nchanges + 1
    /\ lastChange' = <<op, path>>
    /\ events' = IF Reported(path)
                 THEN Append(events, [Op |-> op, Name |-> path])
                 ELSE events
    /\ UNCHANGED <<graph, extraMatches, watch, extraPaths, tool, resolverVars>>
    /\ UNCHANGED <<spawned, sending, mainpc, debounceVars, supVars, sigVars, burstVars>>

\* ---------------------------------------------------------- event handling
\* part_000:244-246
matchFile(name) ==
    \/ Ext(name) = GoExt /\ ~HasPrefix(Base(name), <<".">>)
    \/ name \in extraPaths

\* part_000:268-279  filepath.Walk(ev.Name, ...): the directory itself and
\* what is below it; a file is kept when matchFile(info.Name()) holds, and
\* info.Name() is the base name.
WalkPaths(dir) ==
    {q \in fs : /\ q = dir \/ Under(q, dir)
                /\ IsDir(q) \/ matchFile(<<Base(q)>>)}

\* Mutant: the event's path alone is added (w.Add is not recursive).
PathsToAddNoWalk(name) ==
    IF name \notin fs THEN {}
    ELSE IF IsDir(name) THEN {name}
    ELSE IF ~matchFile(name) THEN {}
    ELSE {name}

\* part_000:258-286  the paths the handler of a create, rename or write
\* event adds; the empty set when it returns before adding any.
PathsToAdd(name) ==
    IF name \notin fs THEN {}
    ELSE IF IsDir(name) THEN {name} \cup WalkPaths(name)
    ELSE IF ~matchFile(name) THEN {}
    ELSE {name}

\* Mutant: the chmod case falls through to the send like the others.
TriggersOnChmod(ev) ==
    CASE ev.Op \in {"Create", "Rename", "Write"} -> PathsToAdd(ev.Name) # {}
      [] OTHER -> TRUE

\* part_000:256-311  whether the handler of ev reaches install <- struct{}{}.
Triggers(ev) ==
    CASE ev.Op \in {"Create", "Rename", "Write"} -> PathsToAdd(ev.Name) # {}
      [] ev.Op = "Remove" -> TRUE
      [] OTHER -> FALSE

\* part_000:256-307  the watch set after the handler of ev.
WatchAfter(ev) ==
    CASE ev.Op \in {"Create", "Rename", "Write"} -> watch \cup PathsToAdd(ev.Name)
      [] ev.Op = "Remove" -> watch \ {ev.Name}
      [] OTHER -> watch

\* part_000:248-255  main receives an event and starts its goroutine.
MainDispatch ==
    /\ tool = "running" /\ mainpc = "loop"
    /\ events # <<>>
    /\ events' = Tail(events)
    /\ spawned' = spawned (+) SetToBag({Head(events)})
    /\ UNCHANGED <<envVars, watch, extraPaths, tool, resolverVars>>
    /\ UNCHANGED <<sending, mainpc, debounceVars, supVars, sigVars, burstVars>>

\* part_000:313-319  an error from the watcher: log.Fatal.
WatcherError ==
    /\ tool = "running" /\ mainpc = "loop"
    /\ tool' = "fatal"
    /\ UNCHANGED <<envVars, watch, extraPaths, resolverVars, loopVars>>

\* part_000:255-310  the goroutine of one event, up to its send on install.
HandleEvent(ev) ==
    /\ tool = "running"
    /\ BagIn(ev, spawned)
    /\ spawned' = spawned (-) SetToBag({ev})
    /\ watch' = WatchAfter(ev)
    /\ sending' = IF Triggers(ev) THEN sending + 1 ELSE sending
    /\ UNCHANGED <<envVars, extraPaths, tool, resolverVars>>
    /\ UNCHANGED <<events, mainpc, debounceVars, supVars, sigVars, burstVars>>

\* ------------------------------------------------------------ debounce loop
Min(a, b) == IF a < b THEN a ELSE b
Max(a, b) == IF a > b THEN a ELSE b

\* Mutant: one timer for the whole burst, not re-armed by later triggers.
TimerKeptRunning == IF needsInstall > 0 THEN timerLeft ELSE QuietPeriod

\* part_000:226-231  the timer the loop selects on after a receive:
\* a new time.After(200ms) on every iteration with needsInstall > 0.
TimerAfterRecv == QuietPeriod

\* Mutant: the loop receives the trigger and forgets it: the counter is not
\* incremented and no timer is made.
DebounceRecvForgets(sender) ==
    /\ tool = "running" /\ dpc = "select"
    /\ needsInstall = 0 \/ timerLeft > 0
    /\ \/ /\ sender = "main" /\ mainpc = "initSend"
          /\ mainpc' = "loop"
          /\ UNCHANGED sending
       \/ /\ sender = "handler" /\ sending > 0
          /\ sending' = sending - 1
          /\ UNCHANGED mainpc
    /\ UNCHANGED <<needsInstall, timerLeft, burstVars>>
    /\ UNCHANGED <<envVars, watch, extraPaths, tool, resolverVars>>
    /\ UNCHANGED <<events, spawned, dpc, nrestarts, builds, lastBuild, supVars, sigVars>>

\* part_000:232-235  case <-install: a trigger is received, from main
\* (part_000:242) or from an event's goroutine (part_000:311).
\* The select is parked on both channels, so once the timer has delivered
\* the timer case has been taken: a trigger is received only before that.
DebounceRecv(sender) ==
    /\ tool = "running" /\ dpc = "select"
    /\ needsInstall = 0 \/ timerLeft > 0
    /\ \/ /\ sender = "main" /\ mainpc = "initSend"
          /\ mainpc' = "loop"
          /\ UNCHANGED sending
       \/ /\ sender = "handler" /\ sending > 0
          /\ sending' = sending - 1
          /\ UNCHANGED mainpc
    /\ needsInstall' = needsInstall + 1
    /\ timerLeft' = TimerAfterRecv
    /\ sinceLast' = 0
    /\ IF burstLen > 0 /\ sinceLast < QuietPeriod
       THEN /\ burstLen' = burstLen + 1
            /\ UNCHANGED burstBuilds
       ELSE /\ burstLen' = 1
            /\ burstBuilds' = 0
    /\ UNCHANGED <<envVars, watch, extraPaths, tool, resolverVars>>
    /\ UNCHANGED <<events, spawned, dpc, nrestarts, builds, lastBuild, supVars, sigVars>>

\* part_000:236-238 and 183-203  case <-timerChan: the counter is reset and
\* installAndRestart starts go install.
TimerFire(max) ==
    /\ tool = "running" /\ dpc = "select"
    /\ needsInstall > 0 /\ timerLeft = 0
    /\ builds < max
    /\ needsInstall' = 0
    /\ dpc' = "building"
    /\ builds' = builds + 1
    /\ burstBuilds' = burstBuilds + 1
    /\ UNCHANGED <<envVars, watch, extraPaths, tool, resolverVars>>
    /\ UNCHANGED <<eventVars, mainpc, timerLeft, nrestarts, lastBuild, supVars, sigVars>>
    /\ UNCHANGED <<sinceLast, burstLen>>

\* Mutant: installAndRestart returns without sending the restart request.
AfterBuildSkipsRestart(ok) == "select"

\* Mutant: the restart request is sent whatever go install returned.
AfterBuildAlwaysRestarts(ok) == "sendRestart"

\* part_000:203-219  where installAndRestart goes when cmd.Run has returned:
\* to restart <- true on success, back to the loop's select on failure.
AfterBuild(ok) == IF ok THEN "sendRestart" ELSE "select"

\* part_000:203-219  cmd.Run returns; nrestarts counts the successes.
BuildDone(ok) ==
    /\ tool = "running" /\ dpc = "building"
    /\ dpc' = AfterBuild(ok)
    /\ nrestarts' = IF ok THEN nrestarts + 1 ELSE nrestarts
    /\ lastBuild' = IF ok THEN "ok" ELSE "failed"
    /\ UNCHANGED <<envVars, watch, extraPaths, tool, resolverVars>>
    /\ UNCHANGED <<eventVars, mainpc, needsInstall, timerLeft, builds>>
    /\ UNCHANGED <<supVars, sigVars, burstVars>>

\* Mutant: the clock advances and the armed timer never delivers.
TickWithoutTimer ==
    /\ tool = "running"
    /\ sinceLast' = Min(sinceLast + TickMs, QuietPeriod)
    /\ sinceLast' # sinceLast
    /\ UNCHANGED <<envVars, watch, extraPaths, tool, resolverVars>>
    /\ UNCHANGED <<eventVars, mainpc, debounceVars, supVars, sigVars, burstLen, burstBuilds>>

\* The clock advances by TickMs.  A timer that has delivered is taken at
\* once by the parked select, so time does not pass over it.
Tick ==
    /\ tool = "running"
    /\ ~(dpc = "select" /\ needsInstall > 0 /\ timerLeft = 0)
    /\ sinceLast' = Min(sinceLast + TickMs, QuietPeriod)
    /\ timerLeft' = IF dpc = "select" /\ needsInstall > 0
                    THEN Max(timerLeft - TickMs, 0) ELSE timerLeft
    /\ sinceLast' # sinceLast \/ timerLeft' # timerLeft
    /\ UNCHANGED <<envVars, watch, extraPaths, tool, resolverVars>>
    /\ UNCHANGED <<eventVars, mainpc, dpc, needsInstall, nrestarts, builds, lastBuild>>
    /\ UNCHANGED <<supVars, sigVars, burstLen, burstBuilds>>

\* --------------------------------------------------------------- supervisor
\* part_000:172-177  a SIGTERM, SIGINT or SIGHUP arrives: restart <- false.
Signal ==
    /\ tool = "running" /\ sigpc = "wait"
    /\ sigpc' = "send"
    /\ sigRestarts' = nrestarts
    /\ UNCHANGED <<envVars, watch, extraPaths, tool, resolverVars>>
    /\ UNCHANGED <<eventVars, mainpc, debounceVars, supVars, burstVars>>

\* part_000:148-153  a request is received and the current child, if any, is
\* sent os.Interrupt; accepted: proc.Signal returned nil.  When it returned
\* an error proc.Kill() follows, which no child survives.
SupRecv(sender, accepted) ==
    /\ tool = "running" /\ spc = "recv"
    /\ \/ /\ sender = "build" /\ dpc = "sendRestart"
          /\ dpc' = "select"
          /\ alive' = TRUE
          /\ restartReqs' = restartReqs + 1
          /\ UNCHANGED sigVars
       \/ /\ sender = "signal" /\ sigpc = "send"
          /\ sigpc' = "done"
          /\ UNCHANGED sigRestarts
          /\ alive' = FALSE
          /\ UNCHANGED <<dpc, restartReqs>>
    /\ signalled' = IF proc # 0 THEN signalled \cup {proc} ELSE signalled
    /\ IF proc # 0 /\ ~accepted
       THEN /\ killed' = killed \cup {proc}
            /\ child' = [child EXCEPT ![proc] = "dead"]
       ELSE UNCHANGED <<killed, child>>
    /\ spc' = "wait"
    /\ UNCHANGED <<envVars, watch, extraPaths, tool, resolverVars>>
    /\ UNCHANGED <<eventVars, mainpc, needsInstall, timerLeft, nrestarts, builds>>
    /\ UNCHANGED <<lastBuild, proc, burstVars>>

\* Mutant: the new instance is started without waiting for the old one.
WaitSkipped == TRUE

\* Mutant: a shutdown request exits without waiting for the child.
WaitSkippedOnShutdown ==
    IF alive THEN (IF proc = 0 THEN TRUE ELSE child[proc] = "dead") ELSE TRUE

\* part_000:154  proc.Wait() has returned (or proc is nil).
Waited == IF proc = 0 THEN TRUE ELSE child[proc] = "dead"

\* part_000:154-168  after the child has exited: os.Exit(0) on a shutdown
\* request, else the binary is started (started = FALSE: cmd.Start fails,
\* no child runs and cmd.Process is nil).
SupFinish(started) ==
    /\ tool = "running" /\ spc = "wait"
    /\ Waited
    /\ IF ~alive
       THEN /\ tool' = "exit0"
            /\ UNCHANGED <<spc, proc, child>>
       ELSE /\ spc' = "recv"
            /\ IF started
               THEN /\ child' = Append(child, "alive")
                    /\ proc' = Len(child) + 1
               ELSE /\ child' = Append(child, "failed")
                    /\ proc' = 0
            /\ UNCHANGED tool
    /\ UNCHANGED <<envVars, watch, extraPaths, resolverVars>>
    /\ UNCHANGED <<eventVars, mainpc, debounceVars, sigVars, burstVars>>
    /\ UNCHANGED <<alive, signalled, killed, restartReqs>>

\* A child exits: on the interrupt it was sent, or on its own.
ChildExit(c) ==
    /\ tool = "running"
    /\ c \in DOMAIN child /\ child[c] = "alive"
    /\ child' = [child EXCEPT ![c] = "dead"]
    /\ UNCHANGED <<envVars, watch, extraPaths, tool, resolverVars>>
    /\ UNCHANGED <<eventVars, mainpc, debounceVars, sigVars, burstVars>>
    /\ UNCHANGED <<spc, alive, proc, signalled, killed, restartReqs>>

\* A child starts ignoring os.Interrupt (signal.Ignore, or a handler that
\* does not exit): from then on only proc.Kill() ends it.
ChildIgnoresInterrupt(c) ==
    /\ tool = "running"
    /\ c \in DOMAIN child /\ child[c] = "alive"
    /\ child' = [child EXCEPT ![c] = "deaf"]
    /\ UNCHANGED <<envVars, watch, extraPaths, tool, resolverVars>>
    /\ UNCHANGED <<eventVars, mainpc, debounceVars, sigVars, burstVars>>
    /\ UNCHANGED <<spc, alive, proc, signalled, killed, restartReqs>>

\* ------------------------------------------------------------ the program
\* The changes made to the tree while the whole program is checked: a write
\* to a source file and one to a file that is not watched for.
SteadyChanges == {<<"Write", MainGo>>, <<"Write", Notes>>}

Init ==
    /\ graph \in SteadyGraphs
    /\ extraMatches \in {{}, {Conf}}
    /\ InitResolver

Startup ==
    \/ ResolveUnit
    \/ ResolveImport
    \/ \E imp \in Units : ImportGoroutine(imp)
    \/ ResolveWait
    \/ AddExtraWatches

Next ==
    \/ Startup
    \/ \E c \in SteadyChanges : FsChange(c[1], c[2], MaxChanges)
    \/ MainDispatch
    \/ WatcherError
    \/ \E op \in Ops, path \in Paths : HandleEvent([Op |-> op, Name |-> path])
    \/ \E sender \in {"main", "handler"} : DebounceRecv(sender)
    \/ TimerFire(MaxBuilds)
    \/ \E ok \in BOOLEAN : BuildDone(ok)
    \/ Tick
    \/ Signal
    \/ \E sender \in {"build", "signal"}, accepted \in BOOLEAN :
          SupRecv(sender, accepted)
    \/ \E started \in BOOLEAN : SupFinish(started)
    \/ \E c \in DOMAIN child : ChildExit(c)
    \/ \E c \in DOMAIN child : ChildIgnoresInterrupt(c)

Spec == Init /\ [][Next]_vars

\* The watch set under every kind of change to every path, with no
\* termination signal and no watcher error.
NextWatch ==
    \/ Startup
    \/ \E op \in Ops, path \in Paths : FsChange(op, path, MaxWatchChanges)
    \/ MainDispatch
    \/ \E op \in Ops, path \in Paths : HandleEvent([Op |-> op, Name |-> path])
    \/ \E sender \in {"main", "handler"} : DebounceRecv(sender)
    \/ TimerFire(MaxWatchBuilds)
    \/ \E ok \in BOOLEAN : BuildDone(ok)
    \/ Tick
    \/ \E accepted \in BOOLEAN : SupRecv("build", accepted)
    \/ \E started \in BOOLEAN : SupFinish(started)
    \/ \E c \in DOMAIN child : ChildExit(c)

SpecWatch == Init /\ [][NextWatch]_vars

\* The tool started with -extra-watches naming the file d/e/y.txt, which
\* exists then, in a subdirectory that is not a unit's.
ExtraTree == InitialTree \cup {Sub, SubNested, SubGo, SubTxt}

\* The file and the subdirectory are removed, and the subdirectory is made
\* again with what was in it.
ExtraChanges == {<<"Remove", SubTxt>>, <<"Remove", Sub>>, <<"Create", Sub>>}

InitExtra ==
    /\ graph = GraphOf(<<Fmt>>)
    /\ extraMatches = {SubTxt}
    /\ fs = ExtraTree
    /\ InitMain

NextExtra ==
    \/ Startup
    \/ \E c \in ExtraChanges : FsChange(c[1], c[2], MaxExtraChanges)
    \/ MainDispatch
    \/ \E op \in Ops, path \in Paths : HandleEvent([Op |-> op, Name |-> path])
    \/ \E sender \in {"main", "handler"} : DebounceRecv(sender)
    \/ TimerFire(MaxExtraBuilds)
    \/ \E ok \in BOOLEAN : BuildDone(ok)
    \/ Tick
    \/ \E accepted \in BOOLEAN : SupRecv("build", accepted)
    \/ \E started \in BOOLEAN : SupFinish(started)
    \/ \E c \in DOMAIN child : ChildExit(c)

SpecExtra == InitExtra /\ [][NextExtra]_vars

\* The whole program under the scheduling the Go runtime gives it: every
\* goroutine that can take a step takes one, the clock advances, go install
\* returns, and a child that handles os.Interrupt exits once it was sent it.
\* Changes to the tree, termination signals, watcher errors and what a child
\* does unasked are left to the environment.
Fairness ==
    /\ WF_vars(Startup)
    /\ WF_vars(MainDispatch)
    /\ WF_vars(\E op \in Ops, path \in Paths : HandleEvent([Op |-> op, Name |-> path]))
    /\ WF_vars(\E sender \in {"main", "handler"} : DebounceRecv(sender))
    /\ WF_vars(TimerFire(MaxBuilds))
    /\ WF_vars(\E ok \in BOOLEAN : BuildDone(ok))
    /\ WF_vars(Tick)
    /\ WF_vars(\E sender \in {"build", "signal"}, accepted \in BOOLEAN :
                  SupRecv(sender, accepted))
    /\ WF_vars(\E started \in BOOLEAN : SupFinish(started))
    /\ WF_vars(\E c \in DOMAIN child : c \in signalled /\ ChildExit(c))

SpecLive == Init /\ [][Next]_vars /\ Fairness

\* ================================================================= claims
Running(c) == c \in DOMAIN child /\ child[c] \in {"alive", "deaf"}

\* The timer has delivered and the select is about to take it.
TimerDue == dpc = "select" /\ needsInstall > 0 /\ timerLeft = 0

\* C1: a burst of K >= 1 triggers, none a full quiet period after the one
\* before it, gets exactly one build: none while the burst lasts, and one,
\* for all K triggers, a full quiet period after the last of them.
C1_OneBuildPerBurst ==
    /\ burstBuilds <= 1
    /\ dpc = "building" => sinceLast >= QuietPeriod
    /\ burstLen > 0 /\ sinceLast < QuietPeriod =>
          burstBuilds = 0 /\ needsInstall = burstLen /\ dpc = "select"
    /\ burstLen > 0 /\ sinceLast >= QuietPeriod =>
          \/ burstBuilds = 1 /\ needsInstall = 0
          \/ burstBuilds = 0 /\ needsInstall = burstLen /\ TimerDue

C1_Witness == burstLen >= 2 /\ burstBuilds = 1 /\ dpc = "building"

\* C2: at most one started child is alive, and every child that is no longer
\* the current one was sent the interrupt and has exited before its
\* successor was started.
C2_OneChildAlive ==
    /\ Cardinality({c \in DOMAIN child : Running(c)}) <= 1
    /\ \A c \in DOMAIN child :
          c # proc /\ child[c] # "failed" =>
              child[c] = "dead" /\ c \in signalled

C2_Witness ==
    /\ Len(child) >= 2
    /\ child[1] = "dead" /\ 1 \in signalled
    /\ Running(2) /\ proc = 2

\* C3: the step in which go install returns with a failure sends no restart
\* request and leaves the supervisor alone: the same current instance, no
\* signal, no child changed, and the loop is back at its select with
\* nothing pending; the supervisor only ever receives as many restart
\* requests as builds have succeeded.
C3_FailedBuildKeepsProcess ==
    [][/\ dpc = "building" /\ dpc' # "building" /\ nrestarts' = nrestarts =>
            /\ dpc' = "select" /\ needsInstall' = 0
            /\ proc' = proc /\ child' = child
            /\ signalled' = signalled /\ killed' = killed
            /\ spc' = spc /\ restartReqs' = restartReqs
       /\ restartReqs' + (IF dpc' = "sendRestart" THEN 1 ELSE 0) = nrestarts'
      ]_vars

C3_Witness ==
    /\ lastBuild = "failed" /\ dpc = "select"
    /\ spc = "recv" /\ Running(proc) /\ proc \notin signalled
    /\ builds = 2 /\ nrestarts = 1

\* C4: the tool has exited through a shutdown request only when that request
\* came from the signal goroutine, the current child (if any) has had
\* os.Interrupt sent to it, and no child the supervisor started is alive.
C4_ShutdownAfterChild ==
    tool = "exit0" =>
        /\ sigpc = "done" /\ ~alive
        /\ proc # 0 => proc \in signalled
        /\ \A c \in DOMAIN child : ~Running(c)

C4_Witness == tool = "exit0" /\ proc # 0 /\ child[proc] = "dead"

\* C8: while no change has been made to the tree, the only trigger is the
\* one main sends after startup: once sent it is the one pending trigger or
\* has had its one build, a quiet period after it; and when the supervisor
\* has served that build's restart request the binary has been started once.
C8_InitialBuild ==
    nchanges = 0 /\ tool # "startup" =>
        /\ mainpc = "initSend" => burstLen = 0 /\ builds = 0 /\ needsInstall = 0
        /\ mainpc = "loop" =>
              /\ burstLen = 1
              /\ \/ builds = 0 /\ needsInstall = 1 /\ dpc = "select"
                    /\ timerLeft = QuietPeriod - sinceLast
                 \/ builds = 1 /\ needsInstall = 0
        /\ dpc = "building" => sinceLast >= QuietPeriod
        /\ restartReqs = nrestarts - (IF dpc = "sendRestart" THEN 1 ELSE 0)
        /\ Len(child) = (IF restartReqs = 1 /\ (spc = "recv" \/ ~alive) THEN 1 ELSE 0)

C8_Witness ==
    /\ nchanges = 0 /\ builds = 1 /\ lastBuild = "ok"
    /\ spc = "recv" /\ Running(1) /\ proc = 1 /\ tool = "running"

EventSpace == [Op : Ops, Name : Paths]

\* The step is the run of the handler goroutine of ev.
Handled(ev) == BagIn(ev, spawned) /\ spawned' = spawned (-) SetToBag({ev})

\* name has the watched extension
HasGoExt(path) == Ext(path) = GoExt

Dotfile(path) == HasPrefix(Base(path), <<".">>)

\* C5 (as claimed): the handler of an event of any kind whose path is a file
\* that is neither a source file nor an extra path sends no trigger.
C5_UnmatchedNeverTriggers ==
    [][\A ev \in EventSpace :
          /\ Handled(ev)
          /\ ~IsDir(ev.Name)
          /\ ~(HasGoExt(ev.Name) /\ ~Dotfile(ev.Name))
          /\ ev.Name \notin extraPaths
          => sending' = sending
      ]_vars

\* C6: the handler of a chmod event changes nothing in the watch set and
\* sends no trigger, whatever the path.
C6_ChmodIgnored ==
    [][\A ev \in EventSpace :
          Handled(ev) /\ ev.Op = "Chmod" =>
              watch' = watch /\ sending' = sending
      ]_vars

C6_Witness ==
    /\ lastChange = <<"Chmod", MainGo>> /\ nchanges = 1
    /\ RootDir \in watch /\ MainGo \notin watch
    /\ mainpc = "loop" /\ events = <<>> /\ spawned = EmptyBag
    /\ sending = 0 /\ burstLen = 1

\* The directories below dir, at any depth.
NestedDirs(dir) == {q \in fs : Under(q, dir) /\ IsDir(q)}

C9_SentinelSkipped ==
    /\ \A k \in 1..Len(pkgs) : pkgs[k] # Cgo
    /\ DirOf(Cgo) \notin watch
    /\ rpc = "imports" /\ rj <= Len(graph[pkgs[ri]]) /\ graph[pkgs[ri]][rj] = Cgo
          => tool # "returned"

\* C10: the directory of a unit in GOROOT, and nothing below it, is ever
\* watched or the path of an event; while the only change made to the tree
\* is one to a file of such a unit, no trigger but main's first one is sent
\* and no build but the first one runs.
InGoroot(path) == \E u \in Units : GorootOf(u) /\ (path = DirOf(u) \/ Under(path, DirOf(u)))

C10_GorootNeverWatched ==
    /\ \A p \in watch : ~InGoroot(p)
    /\ \A k \in 1..Len(events) : ~InGoroot(events[k].Name)
    /\ \A ev \in BagToSet(spawned) : ~InGoroot(ev.Name)
    /\ nchanges = 1 /\ InGoroot(lastChange[2]) =>
          /\ events = <<>> /\ spawned = EmptyBag /\ sending = 0
          /\ burstLen <= 1 /\ builds <= 1
          /\ watch = {RootDir} \cup extraPaths

C10_Witness ==
    /\ lastChange = <<"Write", StdGo>> /\ nchanges = 1
    /\ Fmt \in seenPkgs /\ \E k \in 1..Len(pkgs) : pkgs[k] = Fmt
    /\ builds = 1 /\ dpc = "select" /\ sinceLast >= QuietPeriod

\* C11 (as claimed): whenever the supervisor has received a request and is
\* in its stop phase (the interrupt sent, proc.Wait pending), it later leaves
\* it: it is back at the receive of the next request or the tool has exited,
\* whether or not the child handles the interrupt.
C11_StopPhaseCompletes ==
    (spc = "wait") ~> (spc = "recv" \/ tool # "running")

\* C12 (as claimed): no go install run starts while the supervisor is
\* processing a restart request, that is between its receive of restart <-
\* true and the start of the new child.
C12_NoBuildDuringRestart ==
    [][builds' = builds + 1 => ~(spc = "wait" /\ alive)]_vars

C14_UnitDirsWatched ==
    tool = "running" =>
        \A k \in 1..Len(pkgs) : ~GorootOf(pkgs[k]) => DirOf(pkgs[k]) \in watch

\* The imports of unit id, as a set.
ImportsOf(id) == {graph[id][j] : j \in 1..Len(graph[id])}

\* C15 (as claimed): when the resolver is done, every import of a unit of the
\* list that is in GOROOT has been resolved, and the directory of such an
\* import is watched when it is not itself in GOROOT.
C15_GorootImportsResolved ==
    tool = "running" =>
        \A k \in 1..Len(pkgs) :
            GorootOf(pkgs[k]) =>
                \A imp \in ImportsOf(pkgs[k]) :
                    /\ imp \in seenPkgs
                    /\ ~GorootOf(imp) => DirOf(imp) \in watch

\* C16 (as claimed): when the handler of a create, write or rename event
\* for a path that exists has run, the path itself if it is an extra path,
\* and every extra path that exists below it if it is a directory, is in the
\* watch set, and a trigger is being sent.
C16_ExtraPathAlwaysMatches ==
    [][\A ev \in EventSpace :
          Handled(ev) /\ ev.Op \in {"Create", "Write", "Rename"} /\ ev.Name \in fs =>
              \A q \in extraPaths \cap fs :
                  q = ev.Name \/ (IsDir(ev.Name) /\ Under(q, ev.Name)) =>
                      q \in watch' /\ sending' = sending + 1
      ]_vars

\* The units of the list from its second place on: those a goroutine
\* appended.
Appended == {pkgs[k] : k \in 2..Len(pkgs)}

\* C17 (as claimed): in every state of the resolver, whatever the order in
\* which the goroutines ran: no id is twice in the unit list, the root's
\* included; the ids the goroutines have resolved are exactly those appended
\* to the list and exactly the seen set; and no goroutine is left running
\* when the loop is at a unit's head.
C17_ResolvedOnce ==
    /\ \A k, l \in 1..Len(pkgs) : pkgs[k] = pkgs[l] => k = l
    /\ Appended = seenPkgs
    /\ inflight \cap seenPkgs = {}
    /\ rpc # "imports" => inflight = {}

\* C18: go install is started only by the loop at its select, so after the
\* run before it has returned and, when that one succeeded, after its
\* restart request has been received by the supervisor; and while a run
\* lasts, or its restart request is being sent, no trigger is received:
\* the counter stays zero and no handler's send completes.
C18_OneBuildAtATime ==
    [][/\ builds' # builds =>
            /\ builds' = builds + 1
            /\ dpc = "select" /\ dpc' = "building"
            /\ restartReqs = nrestarts
       /\ dpc # "select" =>
            /\ needsInstall = 0 /\ needsInstall' = 0
            /\ sending' >= sending
      ]_vars

C18_Witness ==
    /\ dpc = "building" /\ builds = 2
    /\ lastBuild = "ok" /\ restartReqs = 1
    /\ sending = 1 /\ needsInstall = 0

\* The supervisor is in proc.Wait on a child that ignores the interrupt it
\* was sent: the child does not exit when stopped.
StuckChild == spc = "wait" /\ proc # 0 /\ child[proc] = "deaf"

\* C19: whenever the handler of an event is sending its trigger, with k
\* builds started so far, a further build starts later, unless the tool
\* exits first or a child does not exit when stopped.  (Every go install
\* run returns and changes stop arriving in every fair run.)
C19_NoTriggerLost ==
    \A k \in 0..MaxBuilds :
        (sending > 0 /\ builds = k) ~>
            (builds > k \/ tool # "running" \/ StuckChild)

C19_Witness ==
    /\ nchanges = 2 /\ lastChange = <<"Write", MainGo>>
    /\ builds = 3 /\ dpc = "building" /\ burstLen = 1
    /\ sending = 0 /\ events = <<>> /\ spawned = EmptyBag
    /\ tool = "running" /\ ~StuckChild

\* C20 (as claimed): while the shutdown request of a signal is waiting to
\* be received, the supervisor receives no restart request of a build that
\* returned after the signal goroutine had received the signal.
C20_NoRestartAfterSignal ==
    [][sigpc = "send" /\ restartReqs' = restartReqs + 1 =>
            restartReqs' <= sigRestarts]_vars

====
